---- MODULE Spec2Model ----
(***************************************************************************)
(* WaveSmith: the point store (class DataModel, dataModel.js), the pointer *)
(* and keyboard state machine (class InteractionHandler) and the           *)
(* coordinate transform (class CanvasRenderer), plus the module-level      *)
(* free-function store of dataModel.js.                                    *)
(*                                                                         *)
(* Points are JavaScript objects: the model keeps a heap from object       *)
(* identities to {time, amplitude} values, and the sequence, the selection *)
(* and the dragged point hold identities.  Times are whole ticks and       *)
(* amplitudes whole units; the canvas is CanvasWidth x CanvasHeight pixels *)
(* so that one pixel is one tick and half the height is amplitude 1.       *)
(***************************************************************************)
EXTENDS Integers, Sequences, FiniteSets, TLC

\* ---------------------------------------------------------------- bounds
\* CONFIG.DEFAULT_DURATION (configurable), in ticks.
DEFAULT_DURATION == 1
\* CONFIG.MAX_UNDO (configurable), the history depth.
MAX_UNDO == 2
\* Longest point sequence the model builds.
MaxPoints == 4
\* Longest array the Load button reads.
MaxLoad == 2
\* Number of handler invocations the model follows when files may be loaded.
MaxSteps == 6
\* Number of handler invocations the model follows when no file is loaded.
MaxStepsNoLoad == 7
\* Number of calls of the module-level functions the model follows.
MaxCalls == 5
\* Number of handler invocations the model follows around an import.
MaxImportSteps == 4
\* audioContext.sampleRate, in samples per tick.
SampleRate == 4
\* Longest sequence, latest time and longest duration generateBuffer is given.
MaxSynthPoints == 2
MaxSynthTime == 2
MaxSynthDuration == 2
\* Number of generateBuffer calls the model follows.
MaxSynthCalls == 2
\* Longest buffer given to a serializer, and the number of serializer calls.
MaxFileSamples == 3
MaxFileCalls == 1
\* Number of wheel and pointer events followed from the default view.
MaxViewSteps == 4
\* Number of handler runs followed around play and export requests.
MaxAudioSteps == 6
MaxPlaybackSteps == 6
MaxMainSteps == 4
\* duration of the script part of main.js, in ticks.
main_duration == 1
\* Lowest pixel row the pointer visits.
MaxY == 1
\* Largest selection Set the model builds.
MaxSelected == 4
\* Number of object identities available to the heap.
NumIds == 6
\* How far outside [0, duration] a pasted time may land in the model.
TimeOver == 1
\* Largest horizontal offset between client and canvas coordinates.
MaxCanvasLeft == 0
MaxOffsetLeft == 1
MaxOffsetSteps == 5

\* ------------------------------------------------------------- constants
\* The view is scaled to the grid: the whole duration is visible at the default
\* zoom, and a pointer hits a point only on the point's own pixel.
DEFAULT_ZOOM == 1
PAN_MOUSE_SENSITIVITY == 1
PAN_WHEEL_SENSITIVITY == 600
ZOOM_MIN == 1
ZOOM_MAX == 10000
\* Vertical wheel deltas at which exp(-deltaY * ZOOM_SENSITIVITY), with
\* ZOOM_SENSITIVITY = 0.001, is taken as 1/2 and 1/10: exp(-0.7) = 0.497 and
\* exp(-2.3) = 0.1003.
HalvingDelta == 700
TenthDelta == 2300
\* CONFIG.DEFAULT_ZOOM where the view is computed in exact fractions.
DefaultZoomQ == 10
POINT_HIT_RADIUS == 1
ClickThreshold == 200
MaxUndoFallback == 20
\* MAX_UNDO of the script part of main.js.
MainMaxUndo == 20
ModuleUndoCap == 100
CanvasWidth == DEFAULT_DURATION
CanvasHeight == 2

\* A parsed JSON value that is not a finite number (a string, null, ...).
NotANumber == 99

Ids == 1..NumIds
Null == 0

VARIABLES
  \* class DataModel
  heap,            \* object identity -> [time, amplitude] of every live point object
  points,          \* this.points: sequence of identities
  selectedPoints,  \* this.selectedPoints: a Set, kept in insertion order
  selectedPoint,   \* this.selectedPoint: identity or Null
  copiedPoints,    \* this.copiedPoints: sequence of values
  undoStack,       \* this.undoStack: sequence of snapshots (JSON texts)
  redoStack,       \* this.redoStack
  zoom, pan,       \* this.zoom, this.pan
  \* class InteractionHandler
  isDragging, draggingPoint, lastX, lastY, sinceDown, isCommandKey,
  cursorX,         \* e.offsetX of the last pointer event of the gesture in progress
  selectionBox,    \* TRUE when this.selectionBox is an object, FALSE when it is null
  selectionStart,
  \* module-level store of dataModel.js
  mod_points,      \* points: sequence of values (objects of the array, in order)
  mod_undoStack, mod_redoStack,
  \* AudioEngine.generateBuffer(points, duration): the arguments and the
  \* buffer of the last call
  synthPoints, synthDuration, synthBuffer,
  \* AudioEngine: the cache, its fingerprint, and the buffer the last play or
  \* export request handed to the buffer source or the encoder; each is <<>>
  \* for null / '' and <<v>> for a value v
  cachedBuffer, lastPointsHash, handedBuffer,
  \* the number of generateBuffer calls play and export requests have made
  generateCalls,
  \* AudioEngine: this.isPlaying, this.currentSource (an index of sources, or
  \* Null) and the state of every buffer source created so far: "playing",
  \* "stopped" or "finished" (silent, its ended event not yet delivered), "ended"
  isPlaying, currentSource, sources,
  \* the script part of main.js: its points, history, cache, fingerprint and
  \* handed buffer
  main_points, main_undoStack, main_redoStack,
  main_cachedBuffer, main_lastPointsHash, main_handedBuffer,
  \* FileIO: the samples of the buffer last serialized, the bytes of the WAV
  \* file and the Int16Array given to the MP3 encoder
  fileSamples, wavBytes, mp3Frames,
  \* history variables
  lastOp,          \* the handler that ran last, when it is one the properties name
  lastHist,        \* the last operation that changed the history stacks
  remaining        \* the number of handlers the model still follows

dmVars == <<heap, points, selectedPoints, selectedPoint, copiedPoints, undoStack, redoStack>>
viewVars == <<zoom, pan>>
ihVars == <<isDragging, draggingPoint, lastX, lastY, sinceDown, isCommandKey,
            selectionBox, selectionStart, cursorX>>
modVars == <<mod_points, mod_undoStack, mod_redoStack>>
synthVars == <<synthPoints, synthDuration, synthBuffer>>
audioVars == <<cachedBuffer, lastPointsHash, handedBuffer, generateCalls>>
mainVars == <<main_points, main_undoStack, main_redoStack,
              main_cachedBuffer, main_lastPointsHash, main_handedBuffer>>
fileVars == <<fileSamples, wavBytes, mp3Frames>>
playVars == <<isPlaying, currentSource, sources>>
histVars == <<lastOp, lastHist, remaining>>
vars == <<dmVars, viewVars, ihVars, modVars, synthVars, audioVars, mainVars, fileVars, playVars,
          histVars>>

\* ---------------------------------------------------------------- helpers
Range(s) == {s[i] : i \in 1..Len(s)}

Min(S) == CHOOSE x \in S : \A y \in S : x <= y

Abs(n) == IF n < 0 THEN 0 - n ELSE n

Last(s) == s[Len(s)]

Front(s) == SubSeq(s, 1, Len(s) - 1)

\* A JavaScript Set: add keeps insertion order and ignores a member already present.
SetAdd(s, x) == IF x \in Range(s) THEN s ELSE Append(s, x)

duration == DEFAULT_DURATION

Point(t, a) == [time |-> t, amplitude |-> a]

\* Array.prototype.sort((a, b) => a.time - b.time): a stable sort by time.
RECURSIVE InsertByTime(_, _, _)
InsertByTime(s, id, h) ==
  IF s = <<>> THEN <<id>>
  ELSE IF h[Last(s)].time <= h[id].time THEN Append(s, id)
  ELSE Append(InsertByTime(Front(s), id, h), Last(s))

RECURSIVE SortByTime(_, _)
SortByTime(s, h) ==
  IF s = <<>> THEN <<>>
  ELSE InsertByTime(SortByTime(Front(s), h), Last(s), h)

\* The n smallest identities not in `used`: the objects a `{...}` literal or
\* JSON.parse creates are distinct from every object still referenced.
RECURSIVE FreshIds(_, _)
FreshIds(n, used) ==
  IF n = 0 THEN <<>>
  ELSE LET id == Min(Ids \ used) IN <<id>> \o FreshIds(n - 1, used \cup {id})

CanAlloc(n, used) == Cardinality(Ids \ used) >= n

\* JSON.stringify(points): the values of the objects, in order.
Stringify(pts, h) == [i \in 1..Len(pts) |-> h[pts[i]]]


\* ------------------------------------------------------- class DataModel
\* The DataModel object as a record; `held` is the set of point objects that
\* the InteractionHandler still references (its draggingPoint).
DM ==
  [heap |-> heap, points |-> points, selectedPoints |-> selectedPoints,
   selectedPoint |-> selectedPoint, copiedPoints |-> copiedPoints,
   undoStack |-> undoStack, redoStack |-> redoStack,
   held |-> {draggingPoint} \ {Null}]

\* The objects reachable from the model's fields and from the handler.
Live(d) ==
  Range(d.points) \cup Range(d.selectedPoints) \cup ({d.selectedPoint} \ {Null}) \cup d.held

\* Unreferenced objects are garbage: the heap keeps the live ones only.
Collect(d) == [d EXCEPT !.heap = [id \in Live(d) |-> d.heap[id]]]

\* New objects holding `vals`, appended to the heap; `ids` are their identities.
NewIds(d, vals) == FreshIds(Len(vals), Live(d))

WithObjects(d, ids, vals) ==
  [d EXCEPT !.heap = [id \in Live(d) \cup Range(ids) |->
                        IF \E i \in 1..Len(ids) : ids[i] = id
                        THEN vals[CHOOSE i \in 1..Len(ids) : ids[i] = id]
                        ELSE d.heap[id]]]

\* JSON.parse(text): a fresh array of fresh objects becomes this.points.
ParseInto(d, text) ==
  LET d0  == [d EXCEPT !.points = <<>>]
      ids == NewIds(d0, text)
  IN  [WithObjects(d0, ids, text) EXCEPT !.points = ids]

maxUndo == IF MAX_UNDO # 0 THEN MAX_UNDO ELSE MaxUndoFallback

\* saveState(): the redo stack after it.
saveStateRedoBroken(rs) == rs

saveStateRedo(rs) == <<>>

\* saveState(): the undo stack after pushing `text`.
saveStatePushNoShift(us, text) == Append(us, text)

saveStatePush(us, text) ==
  LET pushed == Append(us, text)
  IN  IF Len(pushed) > maxUndo THEN Tail(pushed) ELSE pushed

saveStateNoPush(d) == [d EXCEPT !.redoStack = saveStateRedo(d.redoStack)]

saveStateNoClear(d) ==
  [d EXCEPT !.undoStack = saveStatePush(d.undoStack, Stringify(d.points, d.heap))]

saveState(d) ==
  [d EXCEPT !.undoStack = saveStatePush(d.undoStack, Stringify(d.points, d.heap)),
            !.redoStack = saveStateRedo(d.redoStack)]

addPointNoSave(d, time, amplitude) ==
  LET ids == NewIds(d, <<Point(time, amplitude)>>)
      w   == WithObjects(d, ids, <<Point(time, amplitude)>>)
  IN  [w EXCEPT !.points = SortByTime(Append(d.points, ids[1]), w.heap)]

addPoint(d, time, amplitude) ==
  LET s   == saveState(d)
      ids == NewIds(s, <<Point(time, amplitude)>>)
      w   == WithObjects(s, ids, <<Point(time, amplitude)>>)
  IN  [w EXCEPT !.points = SortByTime(Append(s.points, ids[1]), w.heap)]

removePoints(d, pointsToRemove) ==
  LET s == saveState(d)
      Keep(p) == p \notin pointsToRemove
  IN  [s EXCEPT !.points = SelectSeq(s.points, Keep)]

selectPointKeepsSet(d, point) ==
  [d EXCEPT !.selectedPoint = point]

selectPoint(d, point) ==
  [d EXCEPT !.selectedPoints = <<>>, !.selectedPoint = point]

selectAllPointsAdding(d) ==
  [d EXCEPT !.selectedPoints =
              d.selectedPoints \o SelectSeq(d.points, LAMBDA p : p \notin Range(d.selectedPoints)),
            !.selectedPoint = Null]

selectAllPoints(d) ==
  [d EXCEPT !.selectedPoints = d.points, !.selectedPoint = Null]

clearSelection(d) ==
  [d EXCEPT !.selectedPoints = <<>>, !.selectedPoint = Null]

copySelectedAppends(d) ==
  [d EXCEPT !.copiedPoints = d.copiedPoints \o Stringify(d.selectedPoints, d.heap)]

copySelected(d) ==
  [d EXCEPT !.copiedPoints = Stringify(d.selectedPoints, d.heap)]

\* The values pastePoints() creates.
pastedValues(d) ==
  LET startTime == IF d.points = <<>> THEN 0 ELSE d.heap[Last(d.points)].time
      firstCopiedTime == d.copiedPoints[1].time
  IN  [i \in 1..Len(d.copiedPoints) |->
         Point(startTime + (d.copiedPoints[i].time - firstCopiedTime),
               d.copiedPoints[i].amplitude)]

pastePoints(d) ==
  IF d.copiedPoints = <<>> THEN d
  ELSE LET s   == saveState(d)
           new == pastedValues(s)
           ids == NewIds(s, new)
           w   == WithObjects(s, ids, new)
       IN  [w EXCEPT !.points = SortByTime(s.points \o ids, w.heap),
                     !.selectedPoints = ids]

undoReturns(d) == d.undoStack # <<>>

undoOnEmptyPushes(d) ==
  IF d.undoStack = <<>>
  THEN [d EXCEPT !.redoStack = Append(d.redoStack, Stringify(d.points, d.heap))]
  ELSE ParseInto(
         [d EXCEPT !.redoStack = Append(d.redoStack, Stringify(d.points, d.heap)),
                   !.undoStack = Front(d.undoStack)],
         Last(d.undoStack))

undo(d) ==
  IF d.undoStack = <<>> THEN d
  ELSE ParseInto(
         [d EXCEPT !.redoStack = Append(d.redoStack, Stringify(d.points, d.heap)),
                   !.undoStack = Front(d.undoStack)],
         Last(d.undoStack))

redoReturns(d) == d.redoStack # <<>>

redoNoPush(d) ==
  IF d.redoStack = <<>> THEN d
  ELSE ParseInto([d EXCEPT !.redoStack = Front(d.redoStack)], Last(d.redoStack))

redo(d) ==
  IF d.redoStack = <<>> THEN d
  ELSE ParseInto(
         [d EXCEPT !.undoStack = Append(d.undoStack, Stringify(d.points, d.heap)),
                   !.redoStack = Front(d.redoStack)],
         Last(d.redoStack))

loadPointsKeepsHistory(d, newPoints) == clearSelection(ParseInto(d, newPoints))

loadPoints(d, newPoints) ==
  LET c == clearSelection(ParseInto(d, newPoints))
  IN  [c EXCEPT !.undoStack = <<>>, !.redoStack = <<>>]


\* ------------------------------------- module-level store of dataModel.js
\* The module's variables as a record.
MS == [points |-> mod_points, undoStack |-> mod_undoStack, redoStack |-> mod_redoStack]

\* points.sort((a, b) => a.time - b.time) on a sequence of values.
mod_sort(s) ==
  LET perm == SortByTime([i \in 1..Len(s) |-> i], s)
  IN  [i \in 1..Len(s) |-> s[perm[i]]]

mod_saveState(m) ==
  LET pushed == Append(m.undoStack, m.points)
  IN  [m EXCEPT !.undoStack = IF Len(pushed) > ModuleUndoCap THEN Tail(pushed) ELSE pushed,
                !.redoStack = <<>>]

mod_undo(m) ==
  IF m.undoStack = <<>> THEN m
  ELSE [m EXCEPT !.redoStack = Append(m.redoStack, m.points),
                 !.points = Last(m.undoStack),
                 !.undoStack = Front(m.undoStack)]

mod_redo(m) ==
  IF m.redoStack = <<>> THEN m
  ELSE [m EXCEPT !.undoStack = Append(m.undoStack, m.points),
                 !.points = Last(m.redoStack),
                 !.redoStack = Front(m.redoStack)]

mod_addPoint(m, time, amplitude) ==
  mod_saveState([m EXCEPT !.points = mod_sort(Append(m.points, Point(time, amplitude)))])

\* toRemove: the places in the array of the objects the caller passes.
mod_removePoints(m, toRemove) ==
  LET kept == {i \in 1..Len(m.points) : i \notin toRemove}
      RECURSIVE Filter(_)
      Filter(i) == IF i > Len(m.points) THEN <<>>
                   ELSE (IF i \in kept THEN <<m.points[i]>> ELSE <<>>) \o Filter(i + 1)
  IN  mod_saveState([m EXCEPT !.points = Filter(1)])

mod_clearAllPoints(m) == mod_saveState([m EXCEPT !.points = <<>>])


\* ------------------------------------------------------ class AudioEngine
\* Sample values are exact fractions num/den in lowest terms, den > 0.
RECURSIVE GCD(_, _)
GCD(a, b) == IF b = 0 THEN a ELSE GCD(b, a % b)

Rat(n, d) ==
  LET g == GCD(Abs(n), d)
  IN  [num |-> n \div g, den |-> d \div g]

\* The sample of index i (from 0), at time i / sampleRate.
sampleAt(pts, i) ==
  IF pts = <<>> THEN Rat(0, 1)
  ELSE LET after == {j \in 1..Len(pts) : pts[j].time * SampleRate > i}
           next  == IF after = {} THEN Len(pts) ELSE Min(after)
           prev  == IF next - 1 < 1 THEN 1 ELSE next - 1
           p1    == pts[prev]
           p2    == pts[next]
       IN  IF p2.time # p1.time
           THEN Rat(p1.amplitude * SampleRate * (p2.time - p1.time)
                      + (p2.amplitude - p1.amplitude) * (i - SampleRate * p1.time),
                    SampleRate * (p2.time - p1.time))
           ELSE Rat(p1.amplitude, 1)

\* points[points.length - 1]?.time || duration
totalTime(pts, dur) ==
  IF pts # <<>> /\ Last(pts).time # 0 THEN Last(pts).time ELSE dur

generateBuffer(pts, dur) ==
  LET bufferLength == SampleRate * totalTime(pts, dur)
  IN  [k \in 1..bufferLength |-> sampleAt(pts, k - 1)]


\* JSON.stringify(points), as the cell holding the text.
hashPoints(pts) == <<pts>>

\* play(points, duration): the cache, the fingerprint and the buffer given to
\* the buffer source.
play(a, pts, dur) ==
  LET currentHash == hashPoints(pts)
      stale == currentHash # a.lastPointsHash \/ a.cachedBuffer = <<>>
      buffer == IF stale THEN <<generateBuffer(pts, dur)>> ELSE a.cachedBuffer
  IN  [cachedBuffer |-> buffer,
       lastPointsHash |-> IF stale THEN currentHash ELSE a.lastPointsHash,
       handedBuffer |-> buffer,
       generateCalls |-> IF stale THEN a.generateCalls + 1 ELSE a.generateCalls]

\* ------------------------------------------- main.js, the script's audio
\* The buffer playAudio() generates.
main_playBuffer(pts) ==
  LET length == IF pts # <<>> /\ Last(pts).time # 0 THEN Last(pts).time ELSE 1
  IN  [k \in 1..(SampleRate * length) |-> sampleAt(pts, k - 1)]

\* The buffer the export handler generates when there is no cached buffer.
main_exportBuffer(pts) ==
  [k \in 1..(SampleRate * main_duration) |->
     LET at == {j \in 1..Len(pts) : pts[j].time * SampleRate >= (k - 1) * main_duration}
     IN  IF at = {} THEN Rat(0, 1) ELSE Rat(pts[Min(at)].amplitude, 1)]


\* ------------------------------------------------------------ class FileIO
\* Math.floor of the fraction r.
Floor(r) == r.num \div r.den

\* The integer part of the fraction r, as ToNumber-to-integer conversion of a
\* typed array store takes it.
Trunc(r) == IF r.num < 0 THEN 0 - ((0 - r.num) \div r.den) ELSE r.num \div r.den

\* The value an Int16 store keeps of the integer n.
ToInt16(n) ==
  LET m == n % 65536
  IN  IF m >= 32768 THEN m - 65536 ELSE m

U16LE(n) == <<n % 256, (n \div 256) % 256>>

U32LE(n) == <<n % 256, (n \div 256) % 256, (n \div 65536) % 256, (n \div 16777216) % 256>>

\* writeString: the character codes.
Riff == <<82, 73, 70, 70>>
Wave == <<87, 65, 86, 69>>
Fmt == <<102, 109, 116, 32>>
Data == <<100, 97, 116, 97>>

\* Math.max(-1, Math.min(1, sample))
Clamp1(r) ==
  IF r.num > r.den THEN Rat(1, 1)
  ELSE IF r.num < 0 - r.den THEN Rat(0 - 1, 1)
  ELSE r

\* sample < 0 ? sample * 0x8000 : sample * 0x7fff
Scaled(r) == IF r.num < 0 THEN Rat(r.num * 32768, r.den) ELSE Rat(r.num * 32767, r.den)

RECURSIVE Flatten(_)
Flatten(ss) == IF ss = <<>> THEN <<>> ELSE Head(ss) \o Flatten(Tail(ss))

\* audioBufferToWav(buffer), for a buffer of one channel.
audioBufferToWav(samples) ==
  LET numChannels == 1
      bitsPerSample == 16
      blockAlign == numChannels * (bitsPerSample \div 8)
      byteRate == SampleRate * blockAlign
      dataSize == Len(samples) * blockAlign
  IN  Riff \o U32LE(36 + dataSize) \o Wave \o Fmt \o U32LE(16) \o U16LE(1)
        \o U16LE(numChannels) \o U32LE(SampleRate) \o U32LE(byteRate)
        \o U16LE(blockAlign) \o U16LE(bitsPerSample) \o Data \o U32LE(dataSize)
        \o Flatten([i \in 1..Len(samples) |->
                      U16LE(ToInt16(Floor(Scaled(Clamp1(samples[i])))) % 65536)])

\* The Int16Array exportToMp3 fills for the encoder.
int16Samples(samples) ==
  [i \in 1..Len(samples) |-> ToInt16(Trunc(Scaled(samples[i])))]


\* --------------------------------------------------- class CanvasRenderer
visibleRange(z) == duration \div z

timeToX(z, p, t) == ((t - p) * CanvasWidth) \div visibleRange(z)

xToTime(z, p, x) == p + (x * visibleRange(z)) \div CanvasWidth

amplitudeToY(a) == CanvasHeight \div 2 - a * (CanvasHeight \div 2)

yToAmplitude(y) == (CanvasHeight \div 2 - y) \div (CanvasHeight \div 2)

\* Array.prototype.find: the first point of the sequence within the tolerance
\* on both axes, or Null.
pickPointAt(d, z, p, x, y, tolerancePx) ==
  LET Hit(i) == /\ Abs(timeToX(z, p, d.heap[d.points[i]].time) - x) < tolerancePx
                /\ Abs(amplitudeToY(d.heap[d.points[i]].amplitude) - y) < tolerancePx
      hits   == {i \in 1..Len(d.points) : Hit(i)}
  IN  IF hits = {} THEN Null ELSE d.points[Min(hits)]

\* ------------------------------------------------ class InteractionHandler
InBounds(time, amplitude) ==
  time >= 0 /\ time <= duration /\ amplitude >= -1 /\ amplitude <= 1

\* The heap after the move part of dragPoints (before the sort).
dragMovePerPoint(d, dp, dx, dy) ==
  IF dp \in Range(d.selectedPoints)
  THEN [id \in DOMAIN d.heap |->
          IF id \in Range(d.selectedPoints)
             /\ InBounds(d.heap[id].time + dx, d.heap[id].amplitude + dy)
          THEN Point(d.heap[id].time + dx, d.heap[id].amplitude + dy)
          ELSE d.heap[id]]
  ELSE IF InBounds(d.heap[dp].time + dx, d.heap[dp].amplitude + dy)
       THEN [d.heap EXCEPT ![dp] = Point(d.heap[dp].time + dx, d.heap[dp].amplitude + dy)]
       ELSE d.heap

dragMoveEveryPoint(d, dp, dx, dy) ==
  IF \A id \in Range(d.points) : InBounds(d.heap[id].time + dx, d.heap[id].amplitude + dy)
  THEN [id \in DOMAIN d.heap |->
          IF id \in Range(d.points) \cup {dp}
          THEN Point(d.heap[id].time + dx, d.heap[id].amplitude + dy)
          ELSE d.heap[id]]
  ELSE d.heap

dragMove(d, dp, dx, dy) ==
  IF dp \in Range(d.selectedPoints)
  THEN LET canMove == \A id \in Range(d.selectedPoints) :
                        InBounds(d.heap[id].time + dx, d.heap[id].amplitude + dy)
       IN  IF canMove
           THEN [id \in DOMAIN d.heap |->
                   IF id \in Range(d.selectedPoints)
                   THEN Point(d.heap[id].time + dx, d.heap[id].amplitude + dy)
                   ELSE d.heap[id]]
           ELSE d.heap
  ELSE IF InBounds(d.heap[dp].time + dx, d.heap[dp].amplitude + dy)
       THEN [d.heap EXCEPT ![dp] = Point(d.heap[dp].time + dx, d.heap[dp].amplitude + dy)]
       ELSE d.heap

dragPointsSaving(d, dp, dx, dy) ==
  LET h == dragMove(d, dp, dx, dy)
  IN  [saveState(d) EXCEPT !.heap = h, !.points = SortByTime(d.points, h)]

dragPoints(d, dp, dx, dy) ==
  LET h == dragMove(d, dp, dx, dy)
  IN  [d EXCEPT !.heap = h, !.points = SortByTime(d.points, h)]

\* The selection after one box-selection move: every point inside the box is added.
boxSelectReplaces(d, z, p, left, right, top, bottom) ==
  LET Inside(id) ==
        LET x == timeToX(z, p, d.heap[id].time)
            y == amplitudeToY(d.heap[id].amplitude)
        IN  x >= left /\ x <= right /\ y >= top /\ y <= bottom
  IN  [d EXCEPT !.selectedPoints = SelectSeq(d.points, Inside)]

boxSelect(d, z, p, left, right, top, bottom) ==
  LET Inside(id) ==
        LET x == timeToX(z, p, d.heap[id].time)
            y == amplitudeToY(d.heap[id].amplitude)
        IN  x >= left /\ x <= right /\ y >= top /\ y <= bottom
      RECURSIVE AddFrom(_, _)
      AddFrom(sel, i) ==
        IF i > Len(d.points) THEN sel
        ELSE AddFrom(IF Inside(d.points[i]) THEN SetAdd(sel, d.points[i]) ELSE sel, i + 1)
  IN  [d EXCEPT !.selectedPoints = AddFrom(d.selectedPoints, 1)]

panCanvas(z, p, dx) ==
  LET visible == visibleRange(z)
      moved   == p - (dx * visible * PAN_MOUSE_SENSITIVITY) \div CanvasWidth
      lo      == IF duration - visible < moved THEN duration - visible ELSE moved
  IN  IF lo < 0 THEN 0 ELSE lo


\* ------------------------------------------- the view in exact fractions
RAdd(a, b) == Rat(a.num * b.den + b.num * a.den, a.den * b.den)
RSub(a, b) == Rat(a.num * b.den - b.num * a.den, a.den * b.den)
RMul(a, b) == Rat(a.num * b.num, a.den * b.den)
\* a / b for b > 0
RDiv(a, b) == Rat(a.num * b.den, a.den * b.num)
RLe(a, b) == a.num * b.den <= b.num * a.den
RMin(a, b) == IF RLe(a, b) THEN a ELSE b
RMax(a, b) == IF RLe(a, b) THEN b ELSE a

visibleRangeQ(z) == RDiv(Rat(duration, 1), z)

xToTimeQ(z, p, x) == RAdd(p, RMul(Rat(x, CanvasWidth), visibleRangeQ(z)))

clampPanFree(visible, target) == target

\* Math.max(0, Math.min(duration - visible, target))
clampPan(visible, target) ==
  RMax(Rat(0, 1), RMin(RSub(Rat(duration, 1), visible), target))

panCanvasQ(z, p, dx) ==
  LET visible == visibleRangeQ(z)
  IN  clampPan(visible,
               RSub(p, RMul(RMul(Rat(dx, CanvasWidth), visible),
                            Rat(PAN_MOUSE_SENSITIVITY, 1))))

\* Math.abs(e.deltaX) > Math.abs(e.deltaY)
horizontalWheelOrEqual(deltaX, deltaY) == Abs(deltaX) >= Abs(deltaY)

horizontalWheel(deltaX, deltaY) == Abs(deltaX) > Abs(deltaY)

\* Math.exp(-deltaY * ZOOM_SENSITIVITY) at the deltas the model sends.
expFactor(deltaY) ==
  CASE deltaY = 0 -> Rat(1, 1)
    [] deltaY = HalvingDelta -> Rat(1, 2)
    [] deltaY = 0 - HalvingDelta -> Rat(2, 1)
    [] deltaY = TenthDelta -> Rat(1, 10)
    [] deltaY = 0 - TenthDelta -> Rat(10, 1)

\* onWheel, horizontal: the new pan.
wheelPan(z, p, deltaX) ==
  LET visible == visibleRangeQ(z)
  IN  clampPan(visible, RAdd(p, RMul(Rat(deltaX, PAN_WHEEL_SENSITIVITY), visible)))

\* Math.max(ZOOM_MIN, Math.min(ZOOM_MAX, zoom * factor))
wheelZoomTo(z, factor) ==
  RMax(Rat(ZOOM_MIN, 1), RMin(Rat(ZOOM_MAX, 1), RMul(z, factor)))

wheelZoomTargetOldRange(z, p, x, z2) ==
  RSub(xToTimeQ(z, p, x), RMul(Rat(x, CanvasWidth), visibleRangeQ(z)))

\* The pan onWheel computes for the new zoom z2, before the clamp.
wheelZoomTarget(z, p, x, z2) ==
  RSub(xToTimeQ(z, p, x), RMul(Rat(x, CanvasWidth), visibleRangeQ(z2)))

\* onWheel, vertical: the new zoom and pan.
wheelZoom(z, p, x, factor) ==
  LET z2 == wheelZoomTo(z, factor)
  IN  [zoom |-> z2,
       pan  |-> clampPan(visibleRangeQ(z2), wheelZoomTarget(z, p, x, z2))]


\* ------------------------------------------------------------ the machine
FreshButView ==
  /\ heap = <<>>
  /\ points = <<>>
  /\ selectedPoints = <<>>
  /\ selectedPoint = Null
  /\ copiedPoints = <<>>
  /\ undoStack = <<>>
  /\ redoStack = <<>>
  /\ isDragging = FALSE
  /\ draggingPoint = Null
  /\ lastX = 0
  /\ cursorX = 0
  /\ lastY = 0
  /\ sinceDown = ClickThreshold
  /\ isCommandKey = FALSE
  /\ selectionBox = FALSE
  /\ selectionStart = <<0, 0>>
  /\ mod_points = <<>>
  /\ mod_undoStack = <<>>
  /\ mod_redoStack = <<>>
  /\ cachedBuffer = <<>>
  /\ lastPointsHash = <<>>
  /\ handedBuffer = <<>>
  /\ generateCalls = 0
  /\ isPlaying = FALSE
  /\ currentSource = Null
  /\ sources = <<>>
  /\ main_points = <<>>
  /\ main_undoStack = <<>>
  /\ main_redoStack = <<>>
  /\ main_cachedBuffer = <<>>
  /\ main_lastPointsHash = <<>>
  /\ main_handedBuffer = <<>>
  /\ fileSamples = <<>>
  /\ wavBytes = <<>>
  /\ mp3Frames = <<>>
  /\ synthPoints = <<>>
  /\ synthDuration = 0
  /\ synthBuffer = <<>>
  /\ lastOp = "init"
  /\ lastHist = "none"

Fresh == FreshButView /\ zoom = DEFAULT_ZOOM /\ pan = 0

\* The constructor's view in exact fractions: zoom 10, pan 0.
FreshQ == FreshButView /\ zoom = Rat(DefaultZoomQ, 1) /\ pan = Rat(0, 1)

Init == Fresh /\ remaining = MaxSteps

InitView == FreshQ /\ remaining = MaxViewSteps

InitOffset == Fresh /\ remaining = MaxOffsetSteps

InitNoLoad == Fresh /\ remaining = MaxStepsNoLoad

InitModule == Fresh /\ remaining = MaxCalls

InitImport == Fresh /\ remaining = MaxImportSteps

InitSynth == Fresh /\ remaining = MaxSynthCalls

InitFile == Fresh /\ remaining = MaxFileCalls

\* AudioBufferSourceNode.stop(): a source that is sounding falls silent; its
\* ended event is delivered later.
stopSource(srcs, s) ==
  IF srcs[s] = "playing" THEN [srcs EXCEPT ![s] = "stopped"] ELSE srcs

\* AudioEngine.play(points, duration): the buffer source part.
playSource(e) ==
  LET srcs == IF e.isPlaying /\ e.currentSource # Null
              THEN stopSource(e.sources, e.currentSource)
              ELSE e.sources
  IN  [isPlaying |-> TRUE,
       currentSource |-> Len(srcs) + 1,
       sources |-> Append(srcs, "playing")]

\* AudioEngine.stop()
stop(e) ==
  IF e.currentSource # Null
  THEN [isPlaying |-> FALSE,
        currentSource |-> e.currentSource,
        sources |-> stopSource(e.sources, e.currentSource)]
  ELSE e

\* The AudioEngine fields playback uses.
AE == [isPlaying |-> isPlaying, currentSource |-> currentSource, sources |-> sources]

InitAudio == Fresh /\ remaining = MaxAudioSteps

InitPlayback == Fresh /\ remaining = MaxPlaybackSteps

InitMainAudio == Fresh /\ remaining = MaxMainSteps

\* Object identities are opaque, so every state is kept in one canonical
\* numbering: the live objects are numbered in the order of the sequence, then
\* of the selection, then the single selected point, then the dragged point.
RECURSIVE Dedup(_)
Dedup(s) ==
  IF s = <<>> THEN <<>>
  ELSE LET f == Dedup(Front(s))
       IN  IF Last(s) \in Range(f) THEN f ELSE Append(f, Last(s))

LiveOrder(d, dp) ==
  Dedup(d.points \o d.selectedPoints
        \o (IF d.selectedPoint = Null THEN <<>> ELSE <<d.selectedPoint>>)
        \o (IF dp = Null THEN <<>> ELSE <<dp>>))

Renamed(order, id) ==
  IF id = Null THEN Null ELSE CHOOSE i \in 1..Len(order) : order[i] = id

\* The DataModel after a handler, with the handler's new draggingPoint: garbage
\* is collected and the state is written in the canonical numbering.
Commit(d, dp) ==
  LET c == Collect([d EXCEPT !.held = {dp} \ {Null}])
      order == LiveOrder(c, dp)
  IN  /\ heap' = [i \in 1..Len(order) |-> c.heap[order[i]]]
      /\ points' = [i \in 1..Len(c.points) |-> Renamed(order, c.points[i])]
      /\ selectedPoints' = [i \in 1..Len(c.selectedPoints) |->
                              Renamed(order, c.selectedPoints[i])]
      /\ selectedPoint' = Renamed(order, c.selectedPoint)
      /\ draggingPoint' = Renamed(order, dp)
      /\ copiedPoints' = c.copiedPoints
      /\ undoStack' = c.undoStack
      /\ redoStack' = c.redoStack

\* A snapshot push: "evict" when the stack is full and the push discards an entry.
SaveLabel == IF Len(undoStack) >= maxUndo THEN "evict" ELSE "save"

\* One handler runs to completion: what it was, and one step fewer to follow.
Hist(op, hist) ==
  /\ remaining' = remaining - 1
  /\ lastOp' = op
  /\ lastHist' = hist

\* onMouseUp(e) leaves lastX, lastY and selectionStart as they are; nothing reads
\* them before the next onMouseDown overwrites them (onMouseMove returns at once
\* while isDragging is false), so the model forgets their values here.
Forget ==
  /\ lastX' = 0
  /\ cursorX' = 0
  /\ lastY' = 0
  /\ selectionStart' = <<0, 0>>

\* Pointer positions on the canvas.
XS == 0..CanvasWidth
YS == 0..MaxY

\* onMouseDown(e): e.offsetX = x, e.offsetY = y, e.clientX = x + left.
MouseDown(x, y, left) ==
  LET clickedPoint == pickPointAt(DM, zoom, pan, x, y, POINT_HIT_RADIUS)
      d1 == IF isCommandKey THEN DM
            ELSE IF clickedPoint = Null THEN clearSelection(DM)
            ELSE IF clickedPoint \notin Range(selectedPoints) THEN selectPoint(DM, clickedPoint)
            ELSE DM
      hit == pickPointAt(d1, zoom, pan, x, y, POINT_HIT_RADIUS)
      dp == IF isCommandKey THEN draggingPoint ELSE hit
      d2 == IF ~isCommandKey /\ hit # Null THEN saveState(d1) ELSE d1
  IN  /\ remaining > 0
      /\ sinceDown' = 0
      /\ selectionStart' = IF isCommandKey THEN <<x, y>> ELSE selectionStart
      /\ selectionBox' = (isCommandKey \/ selectionBox)
      /\ isDragging' = TRUE
      /\ lastX' = x + left
      /\ cursorX' = x
      /\ lastY' = y
      /\ Commit(d2, dp)
      /\ Hist(IF ~isCommandKey /\ hit # Null THEN "dragStart" ELSE "other", IF ~isCommandKey /\ hit # Null THEN SaveLabel ELSE lastHist)
      /\ UNCHANGED <<viewVars, isCommandKey, modVars, synthVars, playVars, fileVars, audioVars, mainVars>>

\* onMouseUp(e) when it creates a point.
MouseUpCreate(x, y) ==
  /\ remaining > 0
  /\ sinceDown < ClickThreshold /\ draggingPoint = Null /\ ~isCommandKey
  /\ Len(points) < MaxPoints
  /\ CanAlloc(1, Live(DM))
  /\ Commit(addPoint(DM, xToTime(zoom, pan, x), yToAmplitude(y)), Null)
  /\ selectionBox' = FALSE
  /\ isDragging' = FALSE
  /\ Forget
  /\ Hist("create", SaveLabel)
  /\ UNCHANGED <<viewVars, sinceDown, isCommandKey, modVars, synthVars, playVars, fileVars, audioVars, mainVars>>

\* onMouseUp(e) otherwise.
MouseUpStillDragging ==
  /\ remaining > 0
  /\ ~(sinceDown < ClickThreshold /\ draggingPoint = Null /\ ~isCommandKey)
  /\ Commit(DM, draggingPoint)
  /\ Hist("mouseUp", lastHist)
  /\ UNCHANGED <<viewVars, ihVars, modVars, synthVars, playVars, fileVars, audioVars, mainVars>>

MouseUp ==
  /\ remaining > 0
  /\ ~(sinceDown < ClickThreshold /\ draggingPoint = Null /\ ~isCommandKey)
  /\ Commit(DM, Null)
  /\ selectionBox' = FALSE
  /\ isDragging' = FALSE
  /\ Forget
  /\ Hist("mouseUp", lastHist)
  /\ UNCHANGED <<viewVars, sinceDown, isCommandKey, modVars, synthVars, playVars, fileVars, audioVars, mainVars>>

\* onMouseMove(e) while no button is down: returns at once.
MouseMoveIdle ==
  /\ remaining > 0
  /\ ~isDragging
  /\ Hist("other", lastHist)
  /\ UNCHANGED <<dmVars, viewVars, ihVars, modVars, synthVars, playVars, fileVars, audioVars, mainVars>>

\* The corners of the box between the anchor and the cursor.
BoxOf(x, y) ==
  [left   |-> IF selectionStart[1] < x THEN selectionStart[1] ELSE x,
   right  |-> IF selectionStart[1] < x THEN x ELSE selectionStart[1],
   top    |-> IF selectionStart[2] < y THEN selectionStart[2] ELSE y,
   bottom |-> IF selectionStart[2] < y THEN y ELSE selectionStart[2]]

\* The model's bound on the selection: stale entries left by undo and redo never
\* leave the Set, so a box selection may only grow it up to MaxSelected.
BoxFits(x, y) ==
  LET b == BoxOf(x, y)
  IN  Len(boxSelect(DM, zoom, pan, b.left, b.right, b.top, b.bottom).selectedPoints)
        <= MaxSelected

\* onMouseMove(e), selection-box branch.
MouseMoveBox(x, y) ==
  /\ remaining > 0
  /\ isDragging /\ selectionBox /\ isCommandKey
  /\ BoxFits(x, y)
  /\ LET b == BoxOf(x, y)
     IN  /\ selectionBox' = TRUE
         /\ Commit(boxSelect(DM, zoom, pan, b.left, b.right, b.top, b.bottom),
                   draggingPoint)
  /\ lastX' = x
  /\ cursorX' = x
  /\ lastY' = y
  /\ Hist("box", lastHist)
  /\ UNCHANGED <<viewVars, isDragging, sinceDown, isCommandKey,
                 selectionStart, modVars, synthVars, playVars, fileVars, audioVars, mainVars>>

\* onMouseMove(e), point-drag branch: dragPoints(e).
MouseMoveDrag(x, y) ==
  /\ remaining > 0
  /\ isDragging /\ ~(selectionBox /\ isCommandKey) /\ draggingPoint # Null
  /\ LET dx == xToTime(zoom, pan, x) - xToTime(zoom, pan, lastX)
         dy == yToAmplitude(y) - yToAmplitude(lastY)
     IN  Commit(dragPoints(DM, draggingPoint, dx, dy), draggingPoint)
  /\ lastX' = x
  /\ cursorX' = x
  /\ lastY' = y
  /\ Hist("drag", lastHist)
  /\ UNCHANGED <<viewVars, isDragging, sinceDown, isCommandKey,
                 selectionBox, selectionStart, modVars, synthVars, playVars, fileVars, audioVars, mainVars>>

\* onMouseMove(e), pan branch: panCanvas(e), e.clientX = x + left.
MouseMovePan(x, y, left) ==
  /\ remaining > 0
  /\ isDragging /\ ~(selectionBox /\ isCommandKey) /\ draggingPoint = Null
  /\ pan' = panCanvas(zoom, pan, (x + left) - lastX)
  /\ lastX' = x
  /\ cursorX' = x
  /\ lastY' = y
  /\ Hist("other", lastHist)
  /\ UNCHANGED <<dmVars, zoom, isDragging, draggingPoint, sinceDown, isCommandKey,
                 selectionBox, selectionStart, modVars, synthVars, playVars, fileVars, audioVars, mainVars>>

\* 200 ms pass since the last mouse down.
Tick ==
  /\ remaining > 0
  /\ sinceDown < ClickThreshold
  /\ sinceDown' = ClickThreshold
  /\ Hist("other", lastHist)
  /\ UNCHANGED <<dmVars, viewVars, isDragging, draggingPoint, lastX, lastY, cursorX, isCommandKey,
                 selectionBox, selectionStart, modVars, synthVars, playVars, fileVars, audioVars, mainVars>>


\* onKeyDown(e), every branch below with e.metaKey or e.ctrlKey set.
KeyModifier ==
  /\ remaining > 0
  /\ isCommandKey' = TRUE
  /\ Hist("other", lastHist)
  /\ UNCHANGED <<dmVars, viewVars, isDragging, draggingPoint, lastX, lastY, cursorX, sinceDown,
                 selectionBox, selectionStart, modVars, synthVars, playVars, fileVars, audioVars, mainVars>>

KeySelectAll ==
  /\ remaining > 0
  /\ isCommandKey' = TRUE
  /\ Commit(selectAllPoints(DM), draggingPoint)
  /\ Hist("other", lastHist)
  /\ UNCHANGED <<viewVars, isDragging, lastX, lastY, cursorX, sinceDown,
                 selectionBox, selectionStart, modVars, synthVars, playVars, fileVars, audioVars, mainVars>>

KeyCopy ==
  /\ remaining > 0
  /\ isCommandKey' = TRUE
  /\ Commit(copySelected(DM), draggingPoint)
  /\ Hist("copy", lastHist)
  /\ UNCHANGED <<viewVars, isDragging, lastX, lastY, cursorX, sinceDown,
                 selectionBox, selectionStart, modVars, synthVars, playVars, fileVars, audioVars, mainVars>>

\* The model's bounds on a paste: room in the sequence and in the heap, and
\* pasted times no further than TimeOver outside [0, duration].
PasteFits ==
  \/ copiedPoints = <<>>
  \/ /\ Len(points) + Len(copiedPoints) <= MaxPoints
     /\ CanAlloc(Len(copiedPoints), Live(DM))
     /\ \A i \in 1..Len(copiedPoints) :
          /\ pastedValues(DM)[i].time >= 0 - TimeOver
          /\ pastedValues(DM)[i].time <= duration + TimeOver

KeyPaste ==
  /\ remaining > 0
  /\ PasteFits
  /\ isCommandKey' = TRUE
  /\ Commit(pastePoints(DM), draggingPoint)
  /\ Hist(IF copiedPoints # <<>> THEN "paste" ELSE "other", IF copiedPoints # <<>> THEN SaveLabel ELSE lastHist)
  /\ UNCHANGED <<viewVars, isDragging, lastX, lastY, cursorX, sinceDown,
                 selectionBox, selectionStart, modVars, synthVars, playVars, fileVars, audioVars, mainVars>>

\* Room in the heap for the objects JSON.parse creates.
Fits(d, text) == CanAlloc(Len(text), Live([d EXCEPT !.points = <<>>]))

ParseFits(text) == Fits(DM, text)

KeyUndo ==
  /\ remaining > 0
  /\ undoStack # <<>> => ParseFits(Last(undoStack))
  /\ isCommandKey' = TRUE
  /\ Commit(undo(DM), draggingPoint)
  /\ Hist("undo", IF undoReturns(DM) THEN "undo" ELSE lastHist)
  /\ UNCHANGED <<viewVars, isDragging, lastX, lastY, cursorX, sinceDown,
                 selectionBox, selectionStart, modVars, synthVars, playVars, fileVars, audioVars, mainVars>>

KeyRedo ==
  /\ remaining > 0
  /\ redoStack # <<>> => ParseFits(Last(redoStack))
  /\ isCommandKey' = TRUE
  /\ Commit(redo(DM), draggingPoint)
  /\ Hist("redo", IF redoReturns(DM) THEN "redo" ELSE lastHist)
  /\ UNCHANGED <<viewVars, isDragging, lastX, lastY, cursorX, sinceDown,
                 selectionBox, selectionStart, modVars, synthVars, playVars, fileVars, audioVars, mainVars>>

\* onKeyDown(e) with e.key Backspace or Delete; mod: e.metaKey or e.ctrlKey.
KeyDelete(mod) ==
  LET has == Len(selectedPoints) > 0 \/ selectedPoint # Null
      toRemove == IF Len(selectedPoints) > 0 THEN Range(selectedPoints) ELSE {selectedPoint}
      d == IF has THEN clearSelection(removePoints(DM, toRemove)) ELSE DM
  IN  /\ remaining > 0
      /\ isCommandKey' = (mod \/ isCommandKey)
      /\ Commit(d, draggingPoint)
      /\ Hist(IF has THEN "delete" ELSE "other", IF has THEN SaveLabel ELSE lastHist)
      /\ UNCHANGED <<viewVars, isDragging, lastX, lastY, cursorX, sinceDown,
                     selectionBox, selectionStart, modVars, synthVars, playVars, fileVars, audioVars, mainVars>>

\* onKeyUp(e) with e.key Meta or Control.
KeyUp ==
  /\ remaining > 0
  /\ isCommandKey' = FALSE
  /\ Hist("other", lastHist)
  /\ UNCHANGED <<dmVars, viewVars, isDragging, draggingPoint, lastX, lastY, cursorX, sinceDown,
                 selectionBox, selectionStart, modVars, synthVars, playVars, fileVars, audioVars, mainVars>>

\* The JSON files the Load button reads: arrays of at most MaxLoad points of
\* amplitude 0, in any order of time.
PointValues == {Point(t, 0) : t \in 0..duration}

Payloads == UNION {[1..n -> PointValues] : n \in 0..MaxLoad}

\* UI load button: FileIO.loadFromJSON(file), then dataModel.loadPoints(points).
Load(newPoints) ==
  /\ remaining > 0
  /\ ParseFits(newPoints)
  /\ Commit(loadPoints(DM, newPoints), draggingPoint)
  /\ Hist("load", "load")
  /\ UNCHANGED <<viewVars, isDragging, lastX, lastY, cursorX, sinceDown, isCommandKey,
                 selectionBox, selectionStart, modVars, synthVars, playVars, fileVars, audioVars, mainVars>>

\* The arrays a JSON file may hold: time and amplitude are numbers or not.
ImportValues == {Point(t, a) : t \in {0, duration, NotANumber}, a \in {0, NotANumber}}

ImportPayloads == UNION {[1..n -> ImportValues] : n \in 0..MaxLoad}

\* The sequences generateBuffer is given: sorted by time, times from 0 on.
SynthValues == {Point(t, a) : t \in 0..MaxSynthTime, a \in {-1, 0, 1}}

SynthInputs ==
  {pts \in UNION {[1..n -> SynthValues] : n \in 0..MaxSynthPoints} :
     \A i \in 1..(Len(pts) - 1) : pts[i].time <= pts[i + 1].time}

\* A call audioEngine.generateBuffer(pts, dur).
GenerateBuffer(pts, dur) ==
  /\ remaining > 0
  /\ synthPoints' = pts
  /\ synthDuration' = dur
  /\ synthBuffer' = generateBuffer(pts, dur)
  /\ Hist("generateBuffer", lastHist)
  /\ UNCHANGED <<dmVars, viewVars, ihVars, modVars, audioVars, mainVars, fileVars, playVars>>

NextSynth ==
  \E pts \in SynthInputs, dur \in 1..MaxSynthDuration : GenerateBuffer(pts, dur)

\* The play button: audioEngine.play(dataModel.points, dataModel.duration).
Play ==
  /\ remaining > 0
  /\ LET a == play([cachedBuffer |-> cachedBuffer, lastPointsHash |-> lastPointsHash,
                    generateCalls |-> generateCalls],
                   Stringify(points, heap), DEFAULT_DURATION)
     IN  /\ cachedBuffer' = a.cachedBuffer
         /\ lastPointsHash' = a.lastPointsHash
         /\ handedBuffer' = a.handedBuffer
         /\ generateCalls' = a.generateCalls
  /\ LET e == playSource(AE)
     IN  /\ isPlaying' = e.isPlaying
         /\ currentSource' = e.currentSource
         /\ sources' = e.sources
  /\ Hist("play", lastHist)
  /\ UNCHANGED <<dmVars, viewVars, ihVars, modVars, synthVars, fileVars, mainVars>>

\* audioEngine.stop()
Stop ==
  /\ remaining > 0
  /\ LET e == stop(AE)
     IN  /\ isPlaying' = e.isPlaying
         /\ currentSource' = e.currentSource
         /\ sources' = e.sources
  /\ Hist("stop", lastHist)
  /\ UNCHANGED <<dmVars, viewVars, ihVars, modVars, synthVars, audioVars, fileVars, mainVars>>

\* The buffer of source s runs out: the source falls silent and its ended
\* event is queued.
SourceFinishes(s) ==
  /\ remaining > 0
  /\ s \in DOMAIN sources
  /\ sources[s] = "playing"
  /\ sources' = [sources EXCEPT ![s] = "finished"]
  /\ Hist("finished", lastHist)
  /\ UNCHANGED <<dmVars, viewVars, ihVars, modVars, synthVars, audioVars, fileVars, mainVars,
                 isPlaying, currentSource>>

\* The ended event of source s is delivered: its onended callback runs.
Ended(s) ==
  /\ remaining > 0
  /\ s \in DOMAIN sources
  /\ sources[s] \in {"stopped", "finished"}
  /\ sources' = [sources EXCEPT ![s] = "ended"]
  /\ isPlaying' = FALSE
  /\ Hist("onended", lastHist)
  /\ UNCHANGED <<dmVars, viewVars, ihVars, modVars, synthVars, audioVars, fileVars, mainVars,
                 currentSource>>

\* An option of the export dialog: a buffer generated for the encoder.
ExportAudio ==
  /\ remaining > 0
  /\ handedBuffer' = <<generateBuffer(Stringify(points, heap), DEFAULT_DURATION)>>
  /\ generateCalls' = generateCalls + 1
  /\ Hist("exportAudio", lastHist)
  /\ UNCHANGED <<dmVars, viewVars, ihVars, modVars, synthVars, playVars, fileVars, mainVars,
                 cachedBuffer, lastPointsHash>>

NextAudio ==
  \/ \E x \in XS, y \in YS, left \in 0..MaxCanvasLeft : MouseDown(x, y, left)
  \/ \E x \in XS, y \in YS : MouseUpCreate(x, y)
  \/ MouseUp
  \/ \E x \in XS, y \in YS : MouseMoveDrag(x, y)
  \/ KeyUndo
  \/ KeyRedo
  \/ Play
  \/ ExportAudio

\* The script's mouseup listener, releasing at time t and amplitude a;
\* quick: the press was shorter than 200 ms, on no point, without modifier.
MainMouseUp(t, a, quick) ==
  /\ remaining > 0
  /\ IF quick
     THEN /\ Len(main_points) < MaxPoints
          /\ main_undoStack' =
               (LET pushed == Append(main_undoStack, main_points)
                IN  IF Len(pushed) > MainMaxUndo THEN Tail(pushed) ELSE pushed)
          /\ main_redoStack' = <<>>
          /\ main_points' = mod_sort(Append(main_points, Point(t, a)))
     ELSE UNCHANGED <<main_points, main_undoStack, main_redoStack>>
  /\ Hist("main_mouseup", lastHist)
  /\ UNCHANGED <<dmVars, viewVars, ihVars, modVars, synthVars, playVars, fileVars, audioVars,
                 main_cachedBuffer, main_lastPointsHash, main_handedBuffer>>

\* playAudio()
MainPlayAudio ==
  /\ remaining > 0
  /\ LET currentHash == hashPoints(main_points)
         stale == currentHash # main_lastPointsHash \/ main_cachedBuffer = <<>>
         buffer == IF stale THEN <<main_playBuffer(main_points)>> ELSE main_cachedBuffer
     IN  /\ main_cachedBuffer' = buffer
         /\ main_lastPointsHash' = IF stale THEN currentHash ELSE main_lastPointsHash
         /\ main_handedBuffer' = buffer
  /\ Hist("main_playAudio", lastHist)
  /\ UNCHANGED <<dmVars, viewVars, ihVars, modVars, synthVars, playVars, fileVars, audioVars,
                 main_points, main_undoStack, main_redoStack>>

\* An option of the script's export dialog.
MainExportAudio ==
  /\ remaining > 0
  /\ LET buffer == IF main_cachedBuffer = <<>>
                   THEN <<main_exportBuffer(main_points)>>
                   ELSE main_cachedBuffer
     IN  /\ main_cachedBuffer' = buffer
         /\ main_handedBuffer' = buffer
  /\ Hist("main_exportAudio", lastHist)
  /\ UNCHANGED <<dmVars, viewVars, ihVars, modVars, synthVars, playVars, fileVars, audioVars,
                 main_points, main_undoStack, main_redoStack, main_lastPointsHash>>

NextMainAudio ==
  \/ \E p \in SynthValues, quick \in BOOLEAN : MainMouseUp(p.time, p.amplitude, quick)
  \/ MainPlayAudio
  \/ MainExportAudio

\* The float samples of the buffers given to the serializers.
FileSampleValues ==
  {Rat(0 - 2, 1), Rat(0 - 1, 1), Rat(0 - 1, 3), Rat(0, 1), Rat(1, 3), Rat(1, 1), Rat(3, 2)}

FileBuffers == UNION {[1..n -> FileSampleValues] : n \in 0..MaxFileSamples}

\* FileIO.exportToWav(audioBuffer)
ExportToWav(samples) ==
  /\ remaining > 0
  /\ fileSamples' = samples
  /\ wavBytes' = audioBufferToWav(samples)
  /\ Hist("exportToWav", lastHist)
  /\ UNCHANGED <<dmVars, viewVars, ihVars, modVars, synthVars, playVars, audioVars, mainVars,
                 mp3Frames>>

\* FileIO.exportToMp3(audioBuffer)
ExportToMp3(samples) ==
  /\ remaining > 0
  /\ fileSamples' = samples
  /\ mp3Frames' = int16Samples(samples)
  /\ Hist("exportToMp3", lastHist)
  /\ UNCHANGED <<dmVars, viewVars, ihVars, modVars, synthVars, playVars, audioVars, mainVars,
                 wavBytes>>

NextFile ==
  \/ \E samples \in FileBuffers : ExportToWav(samples)
  \/ \E samples \in FileBuffers : ExportToMp3(samples)

\* exp(-deltaY * ZOOM_SENSITIVITY) for the wheel's vertical deltas, and its
\* horizontal deltas.
WheelDeltaY == {0 - TenthDelta, 0 - HalvingDelta, 0, HalvingDelta, TenthDelta}

ZoomFactors == {expFactor(deltaY) : deltaY \in WheelDeltaY}

WheelDeltaX == {0 - HalvingDelta, 0, HalvingDelta}

\* onWheel(e) with |deltaX| > |deltaY|.
WheelPan(deltaX) ==
  /\ remaining > 0
  /\ pan' = wheelPan(zoom, pan, deltaX)
  /\ Hist("wheelPan", lastHist)
  /\ UNCHANGED <<dmVars, zoom, ihVars, modVars, synthVars, playVars, fileVars, audioVars, mainVars>>

\* onWheel(e) otherwise, with e.offsetX = x.
WheelZoom(x, factor) ==
  /\ remaining > 0
  /\ zoom' = wheelZoom(zoom, pan, x, factor).zoom
  /\ pan' = wheelZoom(zoom, pan, x, factor).pan
  /\ Hist("wheelZoom", lastHist)
  /\ UNCHANGED <<dmVars, ihVars, modVars, synthVars, playVars, fileVars, audioVars, mainVars>>

\* onWheel(e) with e.offsetX = x.
Wheel(x, deltaX, deltaY) ==
  \/ horizontalWheel(deltaX, deltaY) /\ WheelPan(deltaX)
  \/ ~horizontalWheel(deltaX, deltaY) /\ WheelZoom(x, expFactor(deltaY))

\* onMouseMove(e) while a press on no point is held: pans.
MouseMovePanQ(x, y, left) ==
  /\ remaining > 0
  /\ isDragging /\ ~(selectionBox /\ isCommandKey) /\ draggingPoint = Null
  /\ pan' = panCanvasQ(zoom, pan, (x + left) - lastX)
  /\ lastX' = x
  /\ cursorX' = x
  /\ lastY' = y
  /\ Hist("pan", lastHist)
  /\ UNCHANGED <<dmVars, zoom, isDragging, draggingPoint, sinceDown, isCommandKey,
                 selectionBox, selectionStart, modVars, synthVars, playVars, fileVars, audioVars, mainVars>>

\* Wheel events and pan drags over the empty sequence.
NextView ==
  \/ \E x \in XS, deltaX \in WheelDeltaX, deltaY \in WheelDeltaY : Wheel(x, deltaX, deltaY)
  \/ \E x \in XS, y \in YS, left \in 0..MaxCanvasLeft : MouseDown(x, y, left)
  \/ \E x \in XS, y \in YS, left \in 0..MaxCanvasLeft : MouseMovePanQ(x, y, left)
  \/ Tick
  \/ MouseUp

\* Calls of the module-level functions.
ModCommit(m) ==
  /\ mod_points' = m.points
  /\ mod_undoStack' = m.undoStack
  /\ mod_redoStack' = m.redoStack

ModAddPoint(time, amplitude) ==
  /\ remaining > 0
  /\ Len(mod_points) < MaxPoints
  /\ ModCommit(mod_addPoint(MS, time, amplitude))
  /\ Hist("mod_addPoint", lastHist)
  /\ UNCHANGED <<dmVars, viewVars, ihVars, synthVars, playVars, fileVars, audioVars, mainVars>>

ModRemovePoints(toRemove) ==
  /\ remaining > 0
  /\ ModCommit(mod_removePoints(MS, toRemove))
  /\ Hist("mod_removePoints", lastHist)
  /\ UNCHANGED <<dmVars, viewVars, ihVars, synthVars, playVars, fileVars, audioVars, mainVars>>

ModClearAllPoints ==
  /\ remaining > 0
  /\ ModCommit(mod_clearAllPoints(MS))
  /\ Hist("mod_clearAllPoints", lastHist)
  /\ UNCHANGED <<dmVars, viewVars, ihVars, synthVars, playVars, fileVars, audioVars, mainVars>>

ModUndo ==
  /\ remaining > 0
  /\ ModCommit(mod_undo(MS))
  /\ Hist("mod_undo", lastHist)
  /\ UNCHANGED <<dmVars, viewVars, ihVars, synthVars, playVars, fileVars, audioVars, mainVars>>

ModRedo ==
  /\ remaining > 0
  /\ ModCommit(mod_redo(MS))
  /\ Hist("mod_redo", lastHist)
  /\ UNCHANGED <<dmVars, viewVars, ihVars, synthVars, playVars, fileVars, audioVars, mainVars>>

Amplitudes == {yToAmplitude(y) : y \in YS}

NextModule ==
  \/ \E time \in 0..duration, amplitude \in Amplitudes : ModAddPoint(time, amplitude)
  \/ \E toRemove \in SUBSET (1..Len(mod_points)) : ModRemovePoints(toRemove)
  \/ ModClearAllPoints
  \/ ModUndo
  \/ ModRedo

Pointer ==
  \/ \E x \in XS, y \in YS, left \in 0..MaxCanvasLeft : MouseDown(x, y, left)
  \/ \E x \in XS, y \in YS : MouseUpCreate(x, y)
  \/ MouseUp
  \/ MouseMoveIdle
  \/ \E x \in XS, y \in YS : MouseMoveBox(x, y)
  \/ \E x \in XS, y \in YS : MouseMoveDrag(x, y)
  \/ \E x \in XS, y \in YS, left \in 0..MaxCanvasLeft : MouseMovePan(x, y, left)
  \/ Tick

Keyboard ==
  \/ KeyModifier
  \/ KeySelectAll
  \/ KeyCopy
  \/ KeyPaste
  \/ KeyUndo
  \/ KeyRedo
  \/ \E mod \in BOOLEAN : KeyDelete(mod)
  \/ KeyUp

\* The handlers that never compute with a point's time or amplitude, around a
\* load of any array.
NextImport ==
  \/ \E newPoints \in ImportPayloads : Load(newPoints)
  \/ KeyModifier
  \/ KeySelectAll
  \/ KeyCopy
  \/ KeyUndo
  \/ KeyRedo
  \/ \E mod \in BOOLEAN : KeyDelete(mod)
  \/ KeyUp

NextNoLoad == Pointer \/ Keyboard

Next == Pointer \/ Keyboard \/ \E newPoints \in Payloads : Load(newPoints)

Spec == Init /\ [][Next]_vars

SpecNoLoad == InitNoLoad /\ [][NextNoLoad]_vars

SpecModule == InitModule /\ [][NextModule]_vars

SpecImport == InitImport /\ [][NextImport]_vars

SpecSynth == InitSynth /\ [][NextSynth]_vars

SpecView == InitView /\ [][NextView]_vars

SpecFile == InitFile /\ [][NextFile]_vars

SpecAudio == InitAudio /\ [][NextAudio]_vars

\* Pointer gestures on a canvas whose left edge is up to MaxOffsetLeft pixels
\* from the window's: e.clientX = e.offsetX + left.
NextOffset ==
  \/ \E x \in XS, y \in YS, left \in 0..MaxOffsetLeft : MouseDown(x, y, left)
  \/ \E x \in XS, y \in YS : MouseUpCreate(x, y)
  \/ MouseUp
  \/ \E x \in XS, y \in YS : MouseMoveDrag(x, y)
  \/ \E x \in XS, y \in YS, left \in 0..MaxOffsetLeft : MouseMovePan(x, y, left)
  \/ Tick

SpecOffset == InitOffset /\ [][NextOffset]_vars

NextPlayback ==
  \/ Play
  \/ Stop
  \/ \E s \in 1..MaxPlaybackSteps : SourceFinishes(s)
  \/ \E s \in 1..MaxPlaybackSteps : Ended(s)

SpecPlayback == InitPlayback /\ [][NextPlayback]_vars

SpecMainAudio == InitMainAudio /\ [][NextMainAudio]_vars

\* ------------------------------------------------------------- properties
Edits == {"create", "delete", "paste", "dragStart"}

\* C1: in every reachable state of the DataModel the point sequence is sorted
\* by non-decreasing time.
C1_SortedByTime ==
  \A i \in 1..(Len(points) - 1) : heap[points[i]].time <= heap[points[i + 1]].time

\* C2: starting from the empty sequence and never loading a file, every point
\* of the sequence has its time in [0, duration] and its amplitude in [-1, 1].
C2_PointsInBounds ==
  \A i \in 1..Len(points) : InBounds(heap[points[i]].time, heap[points[i]].amplitude)

\* C3: a drag step whose dragged point is in the selection Set either shifts
\* every selected point by the step's delta, when every candidate position is
\* inside [0, duration] x [-1, 1], or changes no selected point at all.
C3_GroupMoveAtomic ==
  [][(lastOp' = "drag" /\ draggingPoint \in Range(selectedPoints)) =>
       LET dTime      == xToTime(zoom, pan, lastX') - xToTime(zoom, pan, lastX)
           dAmplitude == yToAmplitude(lastY') - yToAmplitude(lastY)
           before     == Stringify(selectedPoints, heap)
           after      == Stringify(selectedPoints', heap')
           allFit     == \A i \in 1..Len(before) :
                           InBounds(before[i].time + dTime, before[i].amplitude + dAmplitude)
       IN  /\ Len(after) = Len(before)
           /\ \A i \in 1..Len(before) :
                after[i] = IF allFit
                           THEN Point(before[i].time + dTime, before[i].amplitude + dAmplitude)
                           ELSE before[i]]_vars

\* A group drag of two or more selected points has just run.
C3_Witness ==
  /\ lastOp = "drag"
  /\ draggingPoint \in Range(selectedPoints)
  /\ Len(selectedPoints) >= 2

\* C4: the snapshot a structural mutation pushes on the undo stack is the
\* sequence as it was immediately before the mutation, in the DataModel and in
\* the module-level store alike.
C4_SnapshotIsPreMutation ==
  [][/\ lastOp' \in Edits => Last(undoStack') = Stringify(points, heap)
     /\ lastOp' \in {"mod_addPoint", "mod_removePoints"} =>
          Last(mod_undoStack') = mod_points]_vars

\* C5: in every reachable state with a non-empty undo stack, undo() followed at
\* once by redo() gives back a value-equal sequence and both stacks as they were.
C5_UndoThenRedo ==
  (undoStack # <<>> /\ ParseFits(Last(undoStack))
     /\ Fits(undo(DM), Stringify(points, heap))) =>
    LET r == redo(undo(DM))
    IN  /\ Stringify(r.points, r.heap) = Stringify(points, heap)
        /\ r.undoStack = undoStack
        /\ r.redoStack = redoStack

\* A redo that followed an undo has just run and the premise of C5 holds again.
C5_Witness ==
  /\ lastOp = "redo" /\ lastHist = "redo"
  /\ points # <<>>
  /\ undoStack # <<>> /\ ParseFits(Last(undoStack))
  /\ Fits(undo(DM), Stringify(points, heap))

\* C6: the undo stack never holds more than MAX_UNDO snapshots, whatever pushes
\* onto it, and a push onto a full stack drops the oldest snapshot and keeps the
\* others in order below the new one.
C6_UndoStackBounded ==
  [][/\ Len(undoStack') <= maxUndo
     /\ (lastOp' \in Edits /\ Len(undoStack) = maxUndo) =>
          undoStack' = Append(Tail(undoStack), Stringify(points, heap))]_vars

\* A snapshot has just been pushed onto a full undo stack.
C6_Witness == lastHist = "evict" /\ lastOp \in Edits /\ Len(undoStack) = maxUndo

\* C7 as stated: the redo stack is empty unless the handler that ran last was an undo.
C7_RedoOnlyAfterUndo == redoStack # <<>> => lastOp = "undo"

\* C7, amended: the redo stack is empty unless the last operation that changed
\* the history stacks was a successful undo or redo.
C7_RedoOnlyAfterUndoOrRedo == redoStack # <<>> => lastHist \in {"undo", "redo"}

\* The redo stack is non-empty although the handler that ran last was not an undo.
C7_Witness == redoStack # <<>> /\ lastOp # "undo" /\ lastHist \in {"undo", "redo"}

\* C8: right after a destructive edit (create, delete of a non-empty selection,
\* paste of a non-empty clipboard, start of a point drag) the redo stack is
\* empty, and redo() returns false and changes nothing.
C8_RedoClearedByEdit ==
  lastOp \in Edits =>
    /\ redoStack = <<>>
    /\ ~redoReturns(DM)
    /\ redo(DM) = DM

\* A destructive edit has just run with snapshots on the undo stack.
C8_Witness == lastOp \in Edits /\ lastHist \in {"save", "evict"} /\ Len(undoStack) >= 2

\* C9: right after undo(), redo() or loadPoints() the selection Set is empty and
\* no single point is selected.
C9_SelectionClearedByHistory ==
  lastOp \in {"undo", "redo", "load"} => (selectedPoints = <<>> /\ selectedPoint = Null)

\* C10: every member of the selection Set, and the single selected point when
\* there is one, is an object of the current sequence.
C10_SelectionInSequence ==
  /\ Range(selectedPoints) \subseteq Range(points)
  /\ selectedPoint # Null => selectedPoint \in Range(points)

\* C11: undo() on an empty undo stack and redo() on an empty redo stack return
\* false and leave the sequence, both stacks and the clipboard as they were.
C11_EmptyHistoryNoOp ==
  [][/\ (lastOp' = "undo" /\ undoStack = <<>>) =>
          /\ ~undoReturns(DM)
          /\ Stringify(points', heap') = Stringify(points, heap)
          /\ undoStack' = <<>> /\ redoStack' = redoStack
          /\ copiedPoints' = copiedPoints
     /\ (lastOp' = "redo" /\ redoStack = <<>>) =>
          /\ ~redoReturns(DM)
          /\ Stringify(points', heap') = Stringify(points, heap)
          /\ redoStack' = <<>> /\ undoStack' = undoStack
          /\ copiedPoints' = copiedPoints]_vars

\* An undo has just run on an empty undo stack with points in the sequence
\* (a successful undo would have left a snapshot on the redo stack).
C11_Witness == lastOp = "undo" /\ redoStack = <<>> /\ points # <<>> /\ copiedPoints # <<>>

ValidPoint(p) == p.time # NotANumber /\ p.amplitude # NotANumber

ValidPayload(newPoints) == \A i \in 1..Len(newPoints) : ValidPoint(newPoints[i])

\* C12: a load of an array holding a point whose time or amplitude is not a
\* finite number is rejected: the sequence, the selection and both stacks are
\* left as they were.
C12_ImportAllOrNothing ==
  [][\A newPoints \in ImportPayloads :
       (Load(newPoints) /\ ~ValidPayload(newPoints)) =>
         /\ Stringify(points', heap') = Stringify(points, heap)
         /\ Stringify(selectedPoints', heap') = Stringify(selectedPoints, heap)
         /\ (selectedPoint' = Null) = (selectedPoint = Null)
         /\ undoStack' = undoStack
         /\ redoStack' = redoStack]_vars

\* How many entries of the sequence `vals` equal v.
Count(vals, v) == Cardinality({i \in 1..Len(vals) : vals[i] = v})

\* `after` holds the entries of `before` and one more entry `new`.
OneAdded(before, after, new) ==
  \A v \in Range(before) \cup Range(after) \cup {new} :
    Count(after, v) = Count(before, v) + (IF v = new THEN 1 ELSE 0)

\* Exactly one snapshot, the sequence as it was, has been pushed on the undo stack.
OneSnapshotPushed ==
  /\ undoStack' # <<>>
  /\ Last(undoStack') = Stringify(points, heap)
  /\ \/ Front(undoStack') = undoStack
     \/ Len(undoStack) = maxUndo /\ Front(undoStack') = Tail(undoStack)

\* C13: a mouse-up less than 200 ms after the mouse-down, with no point being
\* dragged and the modifier not held, adds exactly one point at the domain
\* coordinates of the release position and pushes exactly one snapshot; a
\* mouse-up after 200 ms or more, or with a dragged point, or with the modifier
\* held, adds no point.
C13_ClickToCreate ==
  [][/\ \A x \in XS, y \in YS :
          MouseUpCreate(x, y) =>
            /\ sinceDown < ClickThreshold /\ draggingPoint = Null /\ ~isCommandKey
            /\ OneAdded(Stringify(points, heap), Stringify(points', heap'),
                        Point(xToTime(zoom, pan, x), yToAmplitude(y)))
            /\ OneSnapshotPushed
     /\ (/\ lastOp' \in {"create", "mouseUp"}
         /\ (sinceDown >= ClickThreshold \/ draggingPoint # Null \/ isCommandKey)) =>
          /\ lastOp' = "mouseUp"
          /\ Stringify(points', heap') = Stringify(points, heap)
          /\ undoStack' = undoStack]_vars

\* A click has just created the second point of the sequence.
C13_Witness == lastOp = "create" /\ Len(points) = 2 /\ Len(undoStack) = 2

\* The values of the selection before the step are the first entries of the
\* values of the selection after it.
SelectionKept ==
  /\ Len(selectedPoints') >= Len(selectedPoints)
  /\ SubSeq(Stringify(selectedPoints', heap'), 1, Len(selectedPoints)) =
       Stringify(selectedPoints, heap)

\* A point of the sequence is in the selection Set and outside the box between
\* the anchor and the cursor.
SelectedOutsideBox ==
  \E i \in 1..Len(selectedPoints) :
    LET b == BoxOf(lastX, lastY)
        x == timeToX(zoom, pan, heap[selectedPoints[i]].time)
        y == amplitudeToY(heap[selectedPoints[i]].amplitude)
    IN  /\ selectedPoints[i] \in Range(points)
        /\ ~(x >= b.left /\ x <= b.right /\ y >= b.top /\ y <= b.bottom)

\* C14: every mouse move of a box selection leaves every point that was
\* selected before it selected, and so does the mouse-up that ends it (whether
\* or not it creates a point): a point
\* the box once covered stays selected when the box shrinks.
C14_BoxSelectAdditive ==
  [][lastOp' \in {"box", "mouseUp", "create"} => SelectionKept]_vars

\* A box-selection move has just run and a selected point lies outside the box.
C14_Witness == lastOp = "box" /\ isCommandKey /\ selectionBox /\ SelectedOutsideBox

\* C15: a paste translates every clipboard point by one common time offset that
\* puts the first pasted point at the time of the last point of the sequence,
\* or, when the sequence is empty, at the clipboard's own first time; the
\* amplitudes are unchanged.  The pasted points are the new selection.
C15_PasteAnchor ==
  [][lastOp' = "paste" =>
       LET anchor == IF points = <<>> THEN copiedPoints[1].time
                     ELSE heap[Last(points)].time
           offset == anchor - copiedPoints[1].time
       IN  Stringify(selectedPoints', heap') =
             [i \in 1..Len(copiedPoints) |->
                Point(copiedPoints[i].time + offset, copiedPoints[i].amplitude)]]_vars

\* C16: when the selection is exactly one point, selected by a mouse-down
\* without modifier that hit it while it was not selected, a copy leaves the
\* clipboard with exactly one entry, that point's time and amplitude.
C16_CopyOfClickedPoint ==
  [][(/\ lastOp' = "copy"
      /\ selectedPoints = <<>>
      /\ selectedPoint # Null /\ selectedPoint \in Range(points)) =>
       copiedPoints' = <<heap[selectedPoint]>>]_vars

\* C17: a drag, a delete, an undo, a redo and a load leave the clipboard as it
\* was, and a copy replaces it by the values of the selection.
C17_ClipboardIndependent ==
  [][/\ lastOp' \in {"drag", "delete", "undo", "redo", "load"} =>
          copiedPoints' = copiedPoints
     /\ lastOp' = "copy" => copiedPoints' = Stringify(selectedPoints, heap)]_vars

\* A drag has just run and the clipboard holds a value no point of the sequence
\* has any more.
C17_Witness ==
  /\ lastOp = "drag"
  /\ \E i \in 1..Len(copiedPoints) :
       \A j \in 1..Len(points) : heap[points[j]] # copiedPoints[i]

\* The time of the last point, 0 for the empty sequence.
lastPointTime(pts) == IF pts = <<>> THEN 0 ELSE Last(pts).time

\* C18: generateBuffer returns SampleRate * max(duration, lastPointTime)
\* samples (times are whole ticks, so the product is its own ceiling).
C18_BufferLength ==
  lastOp = "generateBuffer" =>
    Len(synthBuffer) =
      SampleRate * (IF synthDuration > lastPointTime(synthPoints)
                    THEN synthDuration ELSE lastPointTime(synthPoints))

\* The linear interpolation at sample i between the first point later than the
\* sample time (the last point if there is none) and its predecessor.
Interpolated(pts, i) ==
  LET after == {j \in 1..Len(pts) : pts[j].time * SampleRate > i}
      next  == IF after = {} THEN Len(pts) ELSE Min(after)
      p2    == pts[next]
      p1    == pts[next - 1]
  IN  Rat(p1.amplitude * SampleRate * (p2.time - p1.time)
            + (p2.amplitude - p1.amplitude) * (i - SampleRate * p1.time),
          SampleRate * (p2.time - p1.time))

\* C19: for every sample time from the first point's time up to and including
\* the last point's time the buffer holds a sample, the linear interpolation
\* at that time (for points of distinct times); the buffer of the empty
\* sequence is all zeros.
C19_PiecewiseLinear ==
  lastOp = "generateBuffer" =>
    /\ synthPoints = <<>> =>
         \A k \in 1..Len(synthBuffer) : synthBuffer[k] = Rat(0, 1)
    /\ (Len(synthPoints) >= 2
        /\ \A j \in 1..(Len(synthPoints) - 1) :
             synthPoints[j].time < synthPoints[j + 1].time) =>
         \A i \in (SampleRate * synthPoints[1].time)..(SampleRate * Last(synthPoints).time) :
           /\ i + 1 <= Len(synthBuffer)
           /\ synthBuffer[i + 1] = Interpolated(synthPoints, i)

\* C20: the buffer a play or export request hands to the audio output or the
\* encoder is a synthesis of the sequence as it is at the request (for the
\* class AudioEngine, generateBuffer of the current points; for the script,
\* the buffer either of its generators gives for the current points), never
\* a buffer cached for an earlier sequence.
C20_CacheCoherent ==
  /\ lastOp \in {"play", "exportAudio"} =>
       handedBuffer = <<generateBuffer(Stringify(points, heap), DEFAULT_DURATION)>>
  /\ lastOp \in {"main_playAudio", "main_exportAudio"} =>
       \/ main_handedBuffer = <<main_playBuffer(main_points)>>
       \/ main_handedBuffer = <<main_exportBuffer(main_points)>>

\* C21: a play or export request calls generateBuffer only when the
\* fingerprint of the current sequence differs from the cached one; a request
\* that follows a play with no edit in between calls it not at all, so the two
\* requests together perform one synthesis.
C21_RecomputeOnlyOnChange ==
  [][lastOp' \in {"play", "exportAudio"} =>
       /\ generateCalls' # generateCalls =>
            hashPoints(Stringify(points, heap)) # lastPointsHash
       /\ lastOp = "play" => generateCalls' = generateCalls]_vars

\* The 16-bit value the WAV file holds for sample i (from 1).
WavValue(i) == ToInt16(wavBytes[43 + 2 * i] + 256 * wavBytes[44 + 2 * i])

\* C22: the WAV file is a 44-byte header naming 1 channel and 16 bits,
\* followed by 2 bytes per sample; each sample is clamped to [-1,1], scaled by
\* 32768 when negative and by 32767 otherwise, truncated toward zero, and
\* lies in [-32768, 32767].
C22_WavSerialization ==
  lastOp = "exportToWav" =>
    /\ Len(wavBytes) = 44 + 2 * Len(fileSamples)
    /\ <<wavBytes[23], wavBytes[24]>> = U16LE(1)
    /\ <<wavBytes[35], wavBytes[36]>> = U16LE(16)
    /\ \A i \in 1..Len(fileSamples) :
         /\ WavValue(i) = Trunc(Scaled(Clamp1(fileSamples[i])))
         /\ WavValue(i) \in (0 - 32768)..32767

\* C23: every frame given to the MP3 encoder is the scaling of its sample
\* after clamping to [-1,1] (negative x 32768, positive x 32767): a sample
\* above 1 arrives as 32767 and one below -1 as -32768.
C23_Mp3FramesClamped ==
  lastOp = "exportToMp3" =>
    /\ Len(mp3Frames) = Len(fileSamples)
    /\ \A i \in 1..Len(fileSamples) :
         mp3Frames[i] = Trunc(Scaled(Clamp1(fileSamples[i])))

\* C24: after any wheel events and pan drags from the default view, zoom lies
\* in [ZOOM_MIN, ZOOM_MAX] and pan in [0, duration - duration / zoom].
C24_ViewInRange ==
  /\ RLe(Rat(ZOOM_MIN, 1), zoom) /\ RLe(zoom, Rat(ZOOM_MAX, 1))
  /\ RLe(Rat(0, 1), pan)
  /\ RLe(pan, RSub(Rat(duration, 1), RDiv(Rat(duration, 1), zoom)))

\* The pan was last set by a clamp that cut it back to the upper limit.
C24_Witness ==
  /\ lastOp \in {"wheelPan", "wheelZoom", "pan"}
  /\ zoom # Rat(ZOOM_MIN, 1)
  /\ pan = RSub(Rat(duration, 1), visibleRangeQ(zoom))

\* C25 as stated: every wheel zoom at x leaves xToTime(x) as it was.
C25_ZoomKeepsCursorTime ==
  [][\A x \in XS, factor \in ZoomFactors :
       WheelZoom(x, factor) => xToTimeQ(zoom', pan', x) = xToTimeQ(zoom, pan, x)]_vars

\* The pan the zoom computes lies within the limits, so the clamp keeps it.
Unclamped(x, factor) ==
  LET z2 == wheelZoomTo(zoom, factor)
      target == wheelZoomTarget(zoom, pan, x, z2)
  IN  /\ RLe(Rat(0, 1), target)
      /\ RLe(target, RSub(Rat(duration, 1), visibleRangeQ(z2)))

\* C25, amended: a wheel zoom at x whose computed pan needs no clamping
\* leaves xToTime(x) as it was.
C25_ZoomKeepsCursorTimeUnclamped ==
  [][\A x \in XS, factor \in ZoomFactors :
       (WheelZoom(x, factor) /\ Unclamped(x, factor)) =>
         xToTimeQ(zoom', pan', x) = xToTimeQ(zoom, pan, x)]_vars

\* A zoom that changed the zoom and set a pan strictly between the limits.
C25_Witness ==
  /\ lastOp = "wheelZoom"
  /\ zoom # Rat(DefaultZoomQ, 1)
  /\ pan # Rat(0, 1)
  /\ pan # RSub(Rat(duration, 1), visibleRangeQ(zoom))

\* A pointer move, whichever branch of onMouseMove it takes.
AnyMouseMove ==
  \/ MouseMoveIdle
  \/ \E x \in XS, y \in YS : MouseMoveBox(x, y)
  \/ \E x \in XS, y \in YS : MouseMoveDrag(x, y)
  \/ \E x \in XS, y \in YS, left \in 0..MaxCanvasLeft : MouseMovePan(x, y, left)

\* C26: every mouse up leaves isDragging false, no dragged point and no
\* selection box, whatever the state and the modifier; from then until the
\* next mouse down (the only handler that sets isDragging) a pointer move
\* changes neither points, selection, pan nor zoom.
C26_MouseUpLeavesIdle ==
  [][/\ lastOp' \in {"create", "mouseUp"} =>
          ~isDragging' /\ draggingPoint' = Null /\ ~selectionBox'
     /\ (~isDragging /\ isDragging') =>
          \E x \in XS, y \in YS, left \in 0..MaxCanvasLeft : MouseDown(x, y, left)
     /\ (~isDragging /\ AnyMouseMove) =>
          /\ Stringify(points', heap') = Stringify(points, heap)
          /\ Stringify(selectedPoints', heap') = Stringify(selectedPoints, heap)
          /\ pan' = pan
          /\ zoom' = zoom]_vars

\* A mouse up with the modifier held, over a sequence with a selection.
C26_Witness ==
  /\ lastOp = "mouseUp"
  /\ isCommandKey
  /\ selectedPoints # <<>>
  /\ ~isDragging /\ draggingPoint = Null /\ ~selectionBox

\* The selection is exactly the point at position i of the sequence: the Set
\* is empty and selectedPoint is that point.
SelectionIsJust(i) ==
  /\ selectedPoints' = <<>>
  /\ selectedPoint' = points'[i]
  /\ heap'[points'[i]] = heap[points[i]]

SelectionUnchanged ==
  /\ Stringify(selectedPoints', heap') = Stringify(selectedPoints, heap)
  /\ (selectedPoint' = Null) = (selectedPoint = Null)
  /\ selectedPoint # Null => heap'[selectedPoint'] = heap[selectedPoint]

\* C27: a mouse down without the modifier on a point that is not in the
\* selection makes the selection exactly that point; on no point it empties
\* the selection; on a point of the selection it leaves the selection as it
\* is. A mouse down with the modifier held never changes the selection.
C27_MouseDownSelection ==
  [][\A x \in XS, y \in YS, left \in 0..MaxCanvasLeft :
       MouseDown(x, y, left) =>
         LET clickedPoint == pickPointAt(DM, zoom, pan, x, y, POINT_HIT_RADIUS)
         IN  /\ isCommandKey => SelectionUnchanged
             /\ (~isCommandKey /\ clickedPoint = Null) =>
                  selectedPoints' = <<>> /\ selectedPoint' = Null
             /\ (~isCommandKey /\ clickedPoint # Null
                 /\ clickedPoint \notin Range(selectedPoints)) =>
                  \E i \in 1..Len(points) :
                    points[i] = clickedPoint /\ SelectionIsJust(i)
             /\ (~isCommandKey /\ clickedPoint # Null
                 /\ clickedPoint \in Range(selectedPoints)) =>
                  SelectionUnchanged]_vars

\* A press on a point of a sequence of several: the selection is the pressed
\* point alone, and it is the dragged point.
C27_Witness ==
  /\ lastOp = "dragStart"
  /\ Len(points) >= 2
  /\ selectedPoints = <<>>
  /\ selectedPoint # Null
  /\ draggingPoint = selectedPoint

\* C28: a drag step moves the members of the selection Set when the dragged
\* point is one of them, and the dragged point alone otherwise (by the step's
\* delta, or not at all); every other point of the sequence keeps its time and
\* amplitude, and the sequence holds the same points after the step as before.
C28_DragFrame ==
  [][\A x \in XS, y \in YS :
       MouseMoveDrag(x, y) =>
         LET dx == xToTime(zoom, pan, x) - xToTime(zoom, pan, lastX)
             dy == yToAmplitude(y) - yToAmplitude(lastY)
             after == dragPoints(DM, draggingPoint, dx, dy)
             moved == IF draggingPoint \in Range(selectedPoints)
                      THEN Range(selectedPoints) ELSE {draggingPoint}
         IN  /\ Stringify(points', heap') = Stringify(after.points, after.heap)
             /\ Len(after.points) = Len(points)
             /\ Range(after.points) = Range(points)
             /\ \A id \in Range(points) \ moved : after.heap[id] = heap[id]
             /\ \/ \A id \in moved : after.heap[id] = heap[id]
                \/ \A id \in moved :
                     after.heap[id] = Point(heap[id].time + dx, heap[id].amplitude + dy)]_vars

\* A drag of a single point, outside the selection Set, in a sequence of
\* several points.
C28_Witness ==
  /\ lastOp = "drag"
  /\ selectedPoints = <<>>
  /\ draggingPoint \in Range(points)
  /\ Len(points) >= 2

\* C29: a drag gesture pushes one snapshot, the sequence as it is when the
\* button goes down on the point; the moves and the mouse up that follow push
\* nothing and leave the undo stack as it is, however many moves there are;
\* and an undo after the mouse up puts back the sequence of the top snapshot,
\* which is therefore the pre-drag one.
C29_DragIsOneUndoStep ==
  [][/\ lastOp' = "dragStart" =>
          /\ Last(undoStack') = Stringify(points, heap)
          /\ Front(undoStack') =
               IF Len(undoStack) >= maxUndo THEN Tail(undoStack) ELSE undoStack
     /\ lastOp' = "drag" => undoStack' = undoStack
     /\ (lastOp' = "mouseUp" /\ draggingPoint # Null) =>
          /\ undoStack' = undoStack
          /\ Stringify(points', heap') = Stringify(points, heap)
     /\ (lastOp = "mouseUp" /\ lastOp' = "undo" /\ undoStack # <<>>) =>
          /\ Stringify(points', heap') = Last(undoStack)
          /\ undoStack' = Front(undoStack)]_vars

\* The mouse up that ends a drag which moved a point: the top snapshot has the
\* points of the sequence at other values.
C29_Witness ==
  /\ lastOp = "mouseUp"
  /\ undoStack # <<>>
  /\ Len(Last(undoStack)) = Len(points)
  /\ Last(undoStack) # Stringify(points, heap)

\* The points Delete is to remove: the selection Set, or the single selected
\* point when the Set is empty.
ToDelete == IF selectedPoints # <<>> THEN Range(selectedPoints) ELSE {selectedPoint}

\* C30: Delete with a selection removes from the sequence exactly the selected
\* points, pushes one snapshot and leaves the selection empty; the sequence is
\* shorter by the number of selected points.
C30_DeleteRemovesSelection ==
  [][lastOp' = "delete" =>
       LET Kept(id) == id \notin ToDelete
       IN  /\ Stringify(points', heap') = Stringify(SelectSeq(points, Kept), heap)
           /\ Len(points') = Len(points) - Cardinality(ToDelete)
           /\ Last(undoStack') = Stringify(points, heap)
           /\ Front(undoStack') =
                IF Len(undoStack) >= maxUndo THEN Tail(undoStack) ELSE undoStack
           /\ selectedPoints' = <<>>
           /\ selectedPoint' = Null]_vars

\* C31: a wheel event with |deltaX| > |deltaY| changes pan only; every other
\* wheel event, |deltaX| = |deltaY| included, sets zoom to the clamped product
\* of zoom and exp(-deltaY * ZOOM_SENSITIVITY), so that a negative deltaY never
\* lowers zoom and a positive one never raises it. Neither touches the points,
\* the selection or the history.
C31_WheelDisambiguation ==
  [][\A x \in XS, deltaX \in WheelDeltaX, deltaY \in WheelDeltaY :
       Wheel(x, deltaX, deltaY) =>
         /\ UNCHANGED dmVars
         /\ IF Abs(deltaX) > Abs(deltaY)
            THEN /\ zoom' = zoom
                 /\ pan' = wheelPan(zoom, pan, deltaX)
            ELSE /\ zoom' = wheelZoomTo(zoom, expFactor(deltaY))
                 /\ deltaY < 0 => RLe(zoom, zoom')
                 /\ deltaY > 0 => RLe(zoom', zoom)]_vars

\* A horizontal wheel event has moved pan at the default zoom.
C31_Witness ==
  /\ lastOp = "wheelPan"
  /\ zoom = Rat(DefaultZoomQ, 1)
  /\ pan # Rat(0, 1)

\* C32: for every interleaving of play(), stop() and delivered onended
\* callbacks at most one buffer source is sounding, and isPlaying is true
\* whenever the current source has been started and has neither ended nor been
\* stopped.
C32_PlaybackExclusive ==
  /\ Cardinality({s \in DOMAIN sources : sources[s] = "playing"}) <= 1
  /\ (currentSource # Null /\ sources[currentSource] = "playing") => isPlaying

\* C33: while a point drag is in progress the dragged point is a member of the
\* current point sequence, whatever keyboard actions (undo, redo, delete,
\* paste) are interleaved with the pointer events, so that a PointerMove of
\* the drag only moves objects of the sequence.
C33_DraggedPointInSequence ==
  (isDragging /\ draggingPoint # Null) => draggingPoint \in Range(points)

\* C34: a gesture begun as a box selection (a press with the modifier held,
\* which sets selectionBox until the release) never changes pan and never
\* creates a point by its release, whatever modifier key-ups and key-downs
\* are interleaved with its moves and its release.
C34_BoxGestureNeverPansOrCreates ==
  [][(isDragging /\ selectionBox) => (pan' = pan /\ lastOp' # "create")]_vars

\* C35: a PointerMove whose cursor position equals the previous cursor
\* position (the PointerDown position for the first move) changes no point's
\* time or amplitude in a point drag and leaves pan unchanged in a pan,
\* whatever the offset between clientX and offsetX.
C35_StillMoveKeepsGeometry ==
  [][\A x \in XS, y \in YS :
       (/\ x = cursorX
        /\ y = lastY
        /\ \/ MouseMoveDrag(x, y)
           \/ \E left \in 0..MaxOffsetLeft : MouseMovePan(x, y, left))
       => /\ Stringify(points', heap') = Stringify(points, heap)
          /\ pan' = pan]_vars

\* C36 as stated: a PointerDown on an existing point followed by a PointerUp
\* with no PointerMove in between changes neither the point sequence nor the
\* undo stack nor the redo stack.
C36_PressReleaseKeepsHistory ==
  [][(lastOp' = "dragStart" \/ (lastOp = "dragStart" /\ lastOp' = "mouseUp"))
       => /\ Stringify(points', heap') = Stringify(points, heap)
          /\ undoStack' = undoStack
          /\ redoStack' = redoStack]_vars

\* C36, amended: the PointerDown on an existing point leaves the point
\* sequence as it is, pushes one snapshot of it onto the undo stack (dropping
\* the oldest beyond maxUndo) and empties the redo stack; the PointerUp that
\* follows it directly changes neither the sequence nor the stacks.
C36_PressSnapshotsReleaseKeeps ==
  [][/\ lastOp' = "dragStart"
          => /\ Stringify(points', heap') = Stringify(points, heap)
             /\ undoStack' = saveStatePush(undoStack, Stringify(points, heap))
             /\ redoStack' = <<>>
     /\ (lastOp = "dragStart" /\ lastOp' = "mouseUp")
          => /\ Stringify(points', heap') = Stringify(points, heap)
             /\ undoStack' = undoStack
             /\ redoStack' = redoStack]_vars

\* A press on a point has been released with no move in between: the top
\* snapshot is the sequence as it stands, and no redo is left.
C36_Witness ==
  /\ lastOp = "mouseUp"
  /\ lastHist \in {"save", "evict"}
  /\ points # <<>>
  /\ undoStack # <<>>
  /\ Last(undoStack) = Stringify(points, heap)
  /\ redoStack = <<>>

C38_LoadResetsHistory ==
  /\ [](lastOp = "load" =>
          /\ undoStack = <<>>
          /\ redoStack = <<>>
          /\ ~undoReturns(DM)
          /\ ~redoReturns(DM))
  /\ [][(lastOp = "load" /\ (KeyUndo \/ KeyRedo))
          => /\ Stringify(points', heap') = Stringify(points, heap)
             /\ undoStack' = <<>>
             /\ redoStack' = <<>>]_vars

\* An undo pressed right after a load of a non-empty array has left the
\* loaded points in place and both stacks empty.
C38_Witness ==
  /\ lastOp = "undo"
  /\ lastHist = "load"
  /\ points # <<>>
  /\ undoStack = <<>>
  /\ redoStack = <<>>

====
